---- MODULE Spec2Model ----
(***************************************************************************)
(* Pilot VFR Time Dashboard (src/L_Streamlit_1-1.py).                      *)
(*                                                                         *)
(* The script runs top to bottom; the model splits it where it reads a     *)
(* widget: the upload (Init), the term date inputs with the term filter    *)
(* and the term totals, and the compliance settings with the countdown     *)
(* loop.                                                                   *)
(*                                                                         *)
(* A flight record is [crew, day, tod, dur]: "flt date" is the timestamp   *)
(* <<day, tod>> (tod = 0 is midnight, tod > 0 is later on that day), and   *)
(* "vfr td" is dur, a whole number of minutes.  Hours are kept in minutes, *)
(* so that sums and comparisons are exact.                                 *)
(***************************************************************************)
EXTENDS Integers, Sequences, FiniteSets, TLC

\* ---------------------------------------------------------------- bounds
MaxRecs == 2
MaxDay == 2
MaxWindow == 2

Crews == {"p1", "p2"}
Tods == {0, 1}
Durs == {0, 750}
Mins == {0, 750, 780}
Days == 0 .. MaxDay

CrewIx == ("p1" :> 1) @@ ("p2" :> 2)

RecVals == [crew : Crews, day : Days, tod : Tods, dur : Durs]

\* The scenario of the specification: reference date 2024-03-01 = day 60
\* (day 0 = 2024-01-01), flights of 10 h on day 14 and 8 h on day 50; the
\* second pilot's flight on day 60 lets the date input reach day 60.
ScenarioDf ==
    << [crew |-> "p1", day |-> 14, tod |-> 0, dur |-> 600],
       [crew |-> "p1", day |-> 50, tod |-> 0, dur |-> 480],
       [crew |-> "p2", day |-> 60, tod |-> 0, dur |-> 0] >>

\* ------------------------------------------------------------ timestamps
Midnight(d) == << d, 0 >>

Stamp(r) == << r.day, r.tod >>

TsLt(a, b) == a[1] < b[1] \/ (a[1] = b[1] /\ a[2] < b[2])

TsLe(a, b) == a = b \/ TsLt(a, b)

MinusDays(ts, n) == << ts[1] - n, ts[2] >>

\* ------------------------------------------------------------ data frame
RECURSIVE SumTd(_)
SumTd(s) == IF s = << >> THEN 0 ELSE Head(s).dur + SumTd(Tail(s))

CrewsOf(d) == { d[i].crew : i \in DOMAIN d }

DatesOf(d) == { d[i].day : i \in DOMAIN d }

SetMin(S) == CHOOSE x \in S : \A y \in S : x <= y

SetMax(S) == CHOOSE x \in S : \A y \in S : y <= x

Group(d, c) ==
    LET Test(r) == r.crew = c IN SelectSeq(d, Test)

RecLe(a, b) ==
    LET ka == << CrewIx[a.crew], a.day, a.tod, a.dur >>
        kb == << CrewIx[b.crew], b.day, b.tod, b.dur >>
    IN \/ ka = kb
       \/ \E i \in 1 .. 4 : ka[i] < kb[i] /\ \A j \in 1 .. (i - 1) : ka[j] = kb[j]

\* The frames of at most MaxRecs rows, rows listed in one order: the masks,
\* the group sums and the sorted event dates do not depend on the row order.
Frames ==
    { s \in UNION { [1 .. n -> RecVals] : n \in 1 .. MaxRecs } :
        \A i \in 1 .. (Len(s) - 1) : RecLe(s[i], s[i + 1]) }

\* ----------------------------------------------------------------- state
VARIABLES pc, flights, df, term_start, term_end, df_vfr, display_vfr,
          window_days, window_min, today, results, loc

vars == << pc, flights, df, term_start, term_end, df_vfr, display_vfr,
           window_days, window_min, today, results, loc >>

NoMap == [c \in {} |-> 0]

Init ==
    /\ flights \in Frames \cup {ScenarioDf}
    /\ df = flights
    /\ pc = "loaded"
    /\ term_start = 0
    /\ term_end = 0
    /\ df_vfr = NoMap
    /\ display_vfr = NoMap
    /\ window_days = 1
    /\ window_min = 0
    /\ today = Midnight(0)
    /\ results = NoMap
    /\ loc = NoMap

\* ------------------------------------------------------- term aggregator
\* line 61: the term filter compares calendar dates (.dt.date), both ends
\* inclusive.
TermFilter(d, ts, te) ==
    LET Test(r) == r.day >= ts /\ r.day <= te IN SelectSeq(d, Test)

\* line 67: df.groupby("crew")["vfr td"].sum()
TermTotals(d) == [c \in CrewsOf(d) |-> SumTd(Group(d, c))]

\* Timedelta.components of a non-negative duration of td minutes.
Components(td) ==
    [days |-> td \div 1440, hours |-> (td % 1440) \div 60, minutes |-> td % 60]

\* "{mins:02d}": at least two digits, zero padded.
Pad2(n) == IF n < 10 THEN << 0, n >> ELSE << n \div 10, n % 10 >>

\* fmt with the days of the total left out of the hours.
fmt_Wrapped(td) ==
    [hrs |-> Components(td).hours, mm |-> Pad2(Components(td).minutes)]

\* lines 69-72: the text "H:MM" as [hrs, mm], mm the digits after the colon.
fmt(td) ==
    LET hrs == Components(td).days * 24 + Components(td).hours
        mins == Components(td).minutes
    IN [hrs |-> hrs, mm |-> Pad2(mins)]

\* Hours rounded to two decimals, in hundredths of an hour (round(2) and
\* "{:.2f}" of td / 60; td * 100 / 60 never ends in .5).
Round2(td) ==
    IF td >= 0 THEN (10 * td + 3) \div 6 ELSE 0 - ((10 * (0 - td) + 3) \div 6)

\* lines 74-77 (row order left out)
DisplayVfr(tot) ==
    [c \in DOMAIN tot |-> [term_vfr |-> fmt(tot[c]), hours_dec |-> Round2(tot[c])]]

\* ---------------------------------------------------- compliance countdown
NoneVal == [kind |-> "None"]

Never == [kind |-> "Never"]

DateVal(n) == [kind |-> "date", d |-> n]

\* lines 91-93: grp[(flt date > window_start) & (flt date <= today)], a
\* comparison of timestamps with today = midnight of term_end.
WindowRows(grp, td, wd) ==
    LET window_start == MinusDays(td, wd)
        Test(r) == TsLt(window_start, Stamp(r)) /\ TsLe(Stamp(r), td)
    IN SelectSeq(grp, Test)

\* ExpD with the window taken off the flight date.
ExpD_Back(r, wd) == r.day - wd

\* line 100: (row["flt date"] + days_window).date()
ExpD(r, wd) == r.day + wd

\* Events with events[exp_d] = hours in place of +=: the last row of a date
\* wins.
Events_Overwrite(win, wd) ==
    [ed \in { ExpD(win[i], wd) : i \in DOMAIN win } |->
        LET Test(r) == ExpD(r, wd) = ed
            same == SelectSeq(win, Test)
        IN same[Len(same)].dur]

\* lines 98-102: events.setdefault(exp_d, 0); events[exp_d] += hours
Events(win, wd) ==
    [ed \in { ExpD(win[i], wd) : i \in DOMAIN win } |->
        LET Test(r) == ExpD(r, wd) = ed IN SumTd(SelectSeq(win, Test))]

\* ExpireLoop with curr <= window_min as the test.
RECURSIVE ExpireLoop_Le(_, _, _, _)
ExpireLoop_Le(events, pending, curr, wm) ==
    IF pending = {}
    THEN [curr |-> curr, expire |-> NoneVal]
    ELSE LET ed == SetMin(pending)
             c2 == curr - events[ed]
         IN IF c2 <= wm
            THEN [curr |-> c2, expire |-> DateVal(ed)]
            ELSE ExpireLoop_Le(events, pending \ {ed}, c2, wm)

\* lines 103-108: for ed in sorted(events): curr -= events[ed]; stop at the
\* first ed that leaves curr < window_min.
RECURSIVE ExpireLoop(_, _, _, _)
ExpireLoop(events, pending, curr, wm) ==
    IF pending = {}
    THEN [curr |-> curr, expire |-> NoneVal]
    ELSE LET ed == SetMin(pending)
             c2 == curr - events[ed]
         IN IF c2 < wm
            THEN [curr |-> c2, expire |-> DateVal(ed)]
            ELSE ExpireLoop(events, pending \ {ed}, c2, wm)

\* Expiration without the already-expired branch.
Expiration_NoGuard(win, curr_hours, td, wd, wm) ==
    LET events == Events(win, wd)
        r == ExpireLoop(events, DOMAIN events, curr_hours, wm)
    IN [curr |-> r.curr, expire |-> r.expire, events |-> events]

\* lines 94-108: the two branches; events stays unbuilt in the first.
Expiration(win, curr_hours, td, wd, wm) ==
    IF curr_hours < wm
    THEN [curr |-> curr_hours, expire |-> DateVal(td[1]), events |-> NoMap]
    ELSE LET events == Events(win, wd)
             r == ExpireLoop(events, DOMAIN events, curr_hours, wm)
         IN [curr |-> r.curr, expire |-> r.expire, events |-> events]

\* Missing with the operands swapped.
Missing_Swapped(curr, wm) == wm - curr

\* line 109: missing = curr - window_min, curr as the loop left it.
Missing(curr, wm) == curr - wm

\* line 115: expire or "Never"
Shown(expire) == IF expire = NoneVal THEN Never ELSE expire

\* lines 89-117: one iteration of the loop; the locals are kept beside the
\* row.
Iteration(d, c, dv, td, wd, wm) ==
    LET grp == Group(d, c)
        last_date == SetMax(DatesOf(grp))
        term_vfr == IF c \in DOMAIN dv THEN dv[c].term_vfr ELSE fmt(0)
        win == WindowRows(grp, td, wd)
        curr_hours == SumTd(win)
        e == Expiration(win, curr_hours, td, wd, wm)
        missing == Missing(e.curr, wm)
    IN [row |-> [last_flight_date |-> last_date,
                 term_vfr |-> term_vfr,
                 window_vfr |-> Round2(curr_hours),
                 expiration |-> Shown(e.expire),
                 at_expiration |-> Round2(missing)],
        win |-> win, curr_hours |-> curr_hours, curr |-> e.curr,
        events |-> e.events]

\* The loop over the crews that logged some time only.
LoopCrews_Flown(d) == { d[i].crew : i \in { j \in DOMAIN d : d[j].dur > 0 } }

\* line 88: for crew_name, grp in df.groupby("crew")
LoopCrews(d) == CrewsOf(d)

\* ---------------------------------------------------------------- inputs
Scenario == flights = ScenarioDf

\* lines 52-55: both date inputs range over [min_date, max_date].
TermChoices ==
    IF Scenario THEN { << 14, 60 >> }
    ELSE LET lo == SetMin(DatesOf(df))
             hi == SetMax(DatesOf(df))
         IN (lo .. hi) \X (lo .. hi)

\* line 81: min_value = 1
WindowChoices == IF Scenario THEN {60} ELSE 1 .. MaxWindow

\* line 82: min_value = 0.0
MinChoices == IF Scenario THEN {900} ELSE Mins

\* --------------------------------------------------------------- actions
\* lines 52-59: start after end stops the script.
StopBadTerm ==
    /\ pc = "loaded"
    /\ \E t \in TermChoices :
         /\ t[1] > t[2]
         /\ term_start' = t[1]
         /\ term_end' = t[2]
    /\ pc' = "stopped"
    /\ UNCHANGED << flights, df, df_vfr, display_vfr, window_days, window_min,
                    today, results, loc >>

\* lines 52-64: the filter leaves nothing, the script stops.
StopNoFlights ==
    /\ pc = "loaded"
    /\ \E t \in TermChoices :
         /\ t[1] <= t[2]
         /\ TermFilter(df, t[1], t[2]) = << >>
         /\ term_start' = t[1]
         /\ term_end' = t[2]
         /\ df' = TermFilter(df, t[1], t[2])
    /\ pc' = "stopped"
    /\ UNCHANGED << flights, df_vfr, display_vfr, window_days, window_min,
                    today, results, loc >>

\* lines 52-77: df is replaced by its term rows, then the term totals.
SelectTerm ==
    /\ pc = "loaded"
    /\ \E t \in TermChoices :
         /\ t[1] <= t[2]
         /\ TermFilter(df, t[1], t[2]) # << >>
         /\ term_start' = t[1]
         /\ term_end' = t[2]
         /\ df' = TermFilter(df, t[1], t[2])
    /\ df_vfr' = TermTotals(df')
    /\ display_vfr' = DisplayVfr(df_vfr')
    /\ pc' = "term"
    /\ UNCHANGED << flights, window_days, window_min, today, results, loc >>

\* lines 81-121: the settings, then one row per crew of df.
Countdown ==
    /\ pc = "term"
    /\ \E wd \in WindowChoices, wm \in MinChoices :
         /\ window_days' = wd
         /\ window_min' = wm
    /\ today' = Midnight(term_end)
    /\ LET it == [c \in LoopCrews(df) |->
                    Iteration(df, c, display_vfr, today', window_days', window_min')]
       IN /\ results' = [c \in DOMAIN it |-> it[c].row]
          /\ loc' = [c \in DOMAIN it |->
                       [win |-> it[c].win, curr_hours |-> it[c].curr_hours,
                        curr |-> it[c].curr, events |-> it[c].events]]
    /\ pc' = "done"
    /\ UNCHANGED << flights, df, term_start, term_end, df_vfr, display_vfr >>

Next == StopBadTerm \/ StopNoFlights \/ SelectTerm \/ Countdown

Spec == Init /\ [][Next]_vars

\* ================================================================ claims
Done == pc = "done"

\* The records of pilot c as uploaded, before the term filter.
PilotFlights(c) == Group(flights, c)

SeqToSet(s) == { s[i] : i \in DOMAIN s }

\* Sum of the durations of the rows of s dated in (lo, hi], by calendar
\* date.
SumDated(s, lo, hi) ==
    LET Test(r) == r.day > lo /\ r.day <= hi IN SumTd(SelectSeq(s, Test))

\* Hours of the window rows of c whose expiry date is e or earlier.
LostBy(c, e) ==
    LET Test(r) == r.day + window_days <= e IN SumTd(SelectSeq(loc[c].win, Test))

\* Expiry dates of the window rows of c.
ExpiryDates(c) == { r.day + window_days : r \in SeqToSet(loc[c].win) }

\* Expiry dates whose removal, with all earlier ones, leaves less than the
\* minimum.
Crossing(c) ==
    { e \in ExpiryDates(c) : loc[c].curr_hours - LostBy(c, e) < window_min }

\* C1 as stated: for every pilot row, in every branch, 'VFR at Expiration'
\* is C - minimum_hours with C the window total before any event was
\* subtracted; in the scenario it is 3.00.
C1_Original ==
    Done =>
      /\ \A c \in DOMAIN results :
           results[c].at_expiration = Round2(loc[c].curr_hours - window_min)
      /\ Scenario => results["p1"].at_expiration = 300

\* What is left of the window total when the expiration of c was settled.
Remaining(c) ==
    IF loc[c].curr_hours < window_min THEN loc[c].curr_hours
    ELSE IF results[c].expiration = Never
         THEN loc[c].curr_hours - SumTd(loc[c].win)
         ELSE loc[c].curr_hours - LostBy(c, results[c].expiration.d)

\* C1 amended: 'VFR at Expiration' is R - minimum_hours, R being the window
\* total C less the hours of every event up to and including the expiration
\* event (C itself when already non-compliant, C less all events for
\* 'Never'); in the scenario it is 8 - 15 = -7.00.
C1_Amended ==
    Done =>
      /\ \A c \in DOMAIN results :
           results[c].at_expiration = Round2(Remaining(c) - window_min)
      /\ Scenario =>
           /\ results["p1"].window_vfr = 1800
           /\ results["p1"].expiration = DateVal(74)
           /\ results["p1"].at_expiration = 0 - 700

C1_Witness ==
    /\ Done
    /\ Scenario
    /\ loc["p1"].curr_hours = 1080
    /\ results["p1"].at_expiration # Round2(loc["p1"].curr_hours - window_min)

\* C2: window_total_hours of every pilot row is the sum of the durations of
\* all of the pilot's records dated in (reference_date - window_days,
\* reference_date], the reference date included at any time of day, and
\* records earlier than term_start included.
C2_Claim ==
    Done =>
      \A c \in DOMAIN results :
        results[c].window_vfr =
          Round2(SumDated(PilotFlights(c), term_end - window_days, term_end))

\* C3: a flight (of some duration) dated exactly window_days days before
\* the reference date is not among the rows summed into the window total
\* and makes no expiration event, at any time of day; a flight dated
\* window_days - 1 days before it is among them (stated here for the flights
\* of the term dated before the reference date; the reference date itself
\* and the flights before term_start are the matter of C2).
C3_Claim ==
    Done =>
      \A c \in DOMAIN results :
        \A r \in SeqToSet(PilotFlights(c)) :
          /\ r.dur > 0 /\ r.day = term_end - window_days =>
               /\ r \notin SeqToSet(loc[c].win)
               /\ term_end \notin DOMAIN loc[c].events
          /\ (/\ r.day = term_end - window_days + 1
              /\ r.day < term_end
              /\ r.day >= term_start) => r \in SeqToSet(loc[c].win)

\* C4: for a pilot with C >= minimum_hours the expiration is the smallest
\* expiry date e such that C less the hours of all window records expiring
\* on or before e is below the minimum, and 'Never' when there is none;
\* records sharing an expiry date are taken off together.
C4_Theorem ==
    Done =>
      \A c \in DOMAIN results :
        loc[c].curr_hours >= window_min =>
          results[c].expiration =
            IF Crossing(c) = {} THEN Never ELSE DateVal(SetMin(Crossing(c)))

\* Two window rows of one pilot expire on the same date; taking either off
\* alone leaves the minimum, taking both off does not, and that date is
\* reported.
C4_Witness ==
    /\ Done
    /\ \E c \in DOMAIN results :
         \E i, j \in DOMAIN loc[c].win :
           /\ i # j
           /\ loc[c].win[i].day = loc[c].win[j].day
           /\ loc[c].curr_hours - loc[c].win[i].dur >= window_min
           /\ loc[c].curr_hours - loc[c].win[j].dur >= window_min
           /\ loc[c].curr_hours - loc[c].win[i].dur - loc[c].win[j].dur < window_min
           /\ results[c].expiration = DateVal(loc[c].win[i].day + window_days)

\* C5: whenever the window total is below the minimum, the expiration is
\* the reference date (term_end), no expiration event is built, and 'VFR at
\* Expiration' is the window total less the minimum, a negative value.
C5_Theorem ==
    Done =>
      \A c \in DOMAIN results :
        loc[c].curr_hours < window_min =>
          /\ results[c].expiration = DateVal(term_end)
          /\ loc[c].events = NoMap
          /\ loc[c].curr = loc[c].curr_hours
          /\ results[c].window_vfr = Round2(loc[c].curr_hours)
          /\ results[c].at_expiration = Round2(loc[c].curr_hours - window_min)
          /\ results[c].at_expiration < 0

C5_Witness ==
    /\ Done
    /\ \E c \in DOMAIN results :
         /\ loc[c].curr_hours > 0
         /\ loc[c].curr_hours < window_min
         /\ results[c].expiration = DateVal(term_end)

\* 'Never' comes after every date.
ExpLeq(a, b) ==
    \/ b = Never
    \/ a # Never /\ a.d <= b.d

\* The rows of pilot c have strictly increasing flight dates and positive
\* durations.
Increasing(c) ==
    LET g == Group(df, c)
    IN /\ \A i, j \in DOMAIN g : i < j => TsLt(Stamp(g[i]), Stamp(g[j]))
       /\ \A i \in DOMAIN g : g[i].dur > 0

\* The expiration the loop reports for pilot c under a window of w days,
\* everything else as it is.
ExpirationWith(c, w) ==
    Iteration(df, c, display_vfr, today, w, window_min).row.expiration

\* C6: for a pilot with strictly increasing flight dates and positive
\* durations, a longer window never gives an earlier expiration (reference
\* date, minimum and records fixed; 'Never' after every date).
C6_Theorem ==
    Done =>
      \A c \in DOMAIN results :
        Increasing(c) =>
          \A w \in WindowChoices :
            w >= window_days => ExpLeq(results[c].expiration, ExpirationWith(c, w))

C6_Witness ==
    /\ Done
    /\ \E c \in DOMAIN results :
         /\ Increasing(c)
         /\ Cardinality(DatesOf(Group(df, c))) > 1
         /\ loc[c].curr_hours >= window_min
         /\ results[c].expiration # Never
         /\ \E w \in WindowChoices :
              /\ w > window_days
              /\ ExpirationWith(c, w) # Never
              /\ results[c].expiration.d < ExpirationWith(c, w).d

\* C7: a pilot compliant on the reference date (window total >= minimum)
\* gets 'Never' or a date strictly after the reference date and no later
\* than reference date + window_days, at any time of day.
C7_Claim ==
    Done =>
      \A c \in DOMAIN results :
        loc[c].curr_hours >= window_min =>
          \/ results[c].expiration = Never
          \/ /\ results[c].expiration.d > term_end
             /\ results[c].expiration.d <= term_end + window_days

\* Pilots with a record dated in [lo, hi] / in (lo, hi].
PilotsIn(lo, hi) ==
    { c \in CrewsOf(flights) :
        \E r \in SeqToSet(PilotFlights(c)) : r.day >= lo /\ r.day <= hi }

\* C8 as stated: the term mapping holds the pilots with a record in the
\* term, the compliance mapping holds the pilots with a record in the
\* rolling window, each independently of the other.
C8_Original ==
    Done =>
      /\ DOMAIN df_vfr = PilotsIn(term_start, term_end)
      /\ DOMAIN results = PilotsIn(term_end - window_days + 1, term_end)

\* C8 amended: the compliance mapping holds exactly the pilots of the term
\* mapping, those with a record in [term_start, term_end]; a pilot of the
\* term with no record dated within window_days days of the reference date
\* still has a row, with a window total of 0 and the reference date (or
\* 'Never', for a minimum of 0) as expiration.
C8_Amended ==
    Done =>
      /\ DOMAIN df_vfr = PilotsIn(term_start, term_end)
      /\ DOMAIN results = DOMAIN df_vfr
      /\ \A c \in DOMAIN results :
           c \notin PilotsIn(term_end - window_days, term_end) =>
             /\ results[c].window_vfr = 0
             /\ results[c].expiration =
                  IF window_min > 0 THEN DateVal(term_end) ELSE Never

C8_Witness ==
    /\ Done
    /\ \E c \in DOMAIN results :
         /\ c \notin PilotsIn(term_end - window_days, term_end)
         /\ loc[c].win = << >>
    /\ \E c \in DOMAIN results : loc[c].win # << >>

\* C9: the term mapping holds exactly the pilots with a record dated in
\* [term_start, term_end]; each total is the sum of the durations of those
\* records, shown as H:MM with H = minutes div 60 (not wrapped at 24) and
\* MM = minutes mod 60 in two digits.
C9_Theorem ==
    pc \in {"term", "done"} =>
      /\ DOMAIN display_vfr = PilotsIn(term_start, term_end)
      /\ DOMAIN df_vfr = DOMAIN display_vfr
      /\ \A c \in DOMAIN display_vfr :
           LET total == SumDated(PilotFlights(c), term_start - 1, term_end)
           IN /\ df_vfr[c] = total
              /\ display_vfr[c].term_vfr.hrs = total \div 60
              /\ display_vfr[c].term_vfr.mm =
                   << (total % 60) \div 10, (total % 60) % 10 >>

C9_Witness ==
    /\ pc = "term"
    /\ \E c \in DOMAIN display_vfr :
         /\ df_vfr[c] >= 1440
         /\ display_vfr[c].term_vfr.hrs >= 24

\* C10: with minimum_hours > 0 every row reports a date, never 'Never';
\* with minimum_hours = 0 every row reports 'Never'.
C10_Theorem ==
    Done =>
      \A c \in DOMAIN results :
        /\ window_min > 0 => results[c].expiration.kind = "date"
        /\ window_min = 0 => results[c].expiration = Never

\* A compliant pilot whose running total reaches the minimum only after the
\* last event.
C10_Witness ==
    /\ Done
    /\ window_min > 0
    /\ \E c \in DOMAIN results :
         /\ loc[c].curr_hours >= window_min
         /\ Cardinality(DOMAIN loc[c].events) > 1
         /\ loc[c].curr = 0
         /\ results[c].expiration = DateVal(SetMax(ExpiryDates(c)))

====
